---- MODULE Spec2Model ----
(***************************************************************************)
(* Agent orchestration and request-execution engine of chatbot_soc:        *)
(*   - APICache, RateLimiter and EnhancedOpenAIClient (enhanced API        *)
(*     client: cache, sliding-window rate limiter, serialized queue),      *)
(*   - appReducer's workflow cases (the workflow state machine),           *)
(*   - the chat handlers that drive a plan through the provider.           *)
(* Time is counted in ticks; a tick stands for any positive number of      *)
(* milliseconds of Date.now().                                             *)
(***************************************************************************)
EXTENDS Integers, Sequences, FiniteSets, TLC

(* ----------------------------- bounds -------------------------------- *)
\* Date.now() runs over 0..MaxTime.
MaxTime == 3
\* Number of APICache.set calls of one behaviour of SpecCache.
MaxSets == 3
\* The capacity of the cache (src/unnamed/part_003:1140 sets 100). The model
\* is parametric in it and checks it at a small value.
maxSize == 2
\* The default time to live, in ticks (src/unnamed/part_003:1141 sets 5 min).
defaultTTL == 2

Null == "null"

(* ------------------------------ state -------------------------------- *)
VARIABLES
  now,          \* Date.now()
  cache,        \* APICache.cache: the Map's entries in the Map's iteration order
  lastGet,      \* key and result of an APICache.get, while nothing has happened since
  written,      \* per key, data and expiry of the latest set (no clear since, not yet past expiry)
  lastSetKey,   \* the key of the latest set when no set or clear followed it
  insertedAt,   \* per key, the number of the set that put the key into the Map
  setCount,     \* number of sets so far
  evictedKey,   \* the key the last set removed from the Map, or 0
  oldestBefore, \* the key of least insertion number before the last set, or 0
  requests,     \* RateLimiter.requests: identifier -> the timestamps recorded
  requestQueue, \* EnhancedOpenAIClient.requestQueue: the calls whose closure waits
  processing,   \* EnhancedOpenAIClient.processing
  workers,      \* the activations of processQueue that are past its guard
  calls,        \* the createChatCompletion calls made so far, with their outcome
  last,         \* the latest call, with what held when it was made
  fresh,        \* per request, the response stored last (no store since) and its expiry
  invoked,      \* per request, when the TTL ends that began as a cached call went to the queue
  handler,      \* the chat handler the panel has mounted
  workflow,     \* AppState.workflow: the steps of the registered workflow
  isProcessing, \* AppState.isProcessing
  run,          \* the activation of generateResponse / generateEnhancedResponse
  earlier,      \* the activation a later message overtook, while it is not over
  result,       \* what the last run returned
  runs,         \* number of runs started
  args,         \* the function applied on its own, and its arguments
  returned      \* what that function returned

cacheVars == <<cache, lastGet, written, lastSetKey, insertedAt,
               setCount, evictedKey, oldestBefore>>

clientVars == <<requests, requestQueue, processing, workers, calls, last, fresh, invoked>>

flowVars == <<handler, workflow, isProcessing, run, earlier, result, runs>>

callVars == <<args, returned>>

(* ----------------------------- APICache ------------------------------ *)
CacheKeys == 1..(maxSize + 1)
Values == {"v1", "v2"}

\* Map.keys(): the keys in iteration order.
KeysOf(c) == [i \in 1..Len(c) |-> c[i].key]
HasKey(c, k) == \E i \in 1..Len(c) : c[i].key = k
IndexOf(c, k) == CHOOSE i \in 1..Len(c) : c[i].key = k

\* Map.delete(key)
MapDelete(c, k) == SelectSeq(c, LAMBDA e : e.key # k)

\* Map.set(key, entry): a present key keeps its place, a new key goes last.
MapSetKeepOld(c, e) == IF HasKey(c, e.key) THEN c ELSE Append(c, e)
MapSet(c, e) ==
  IF HasKey(c, e.key)
    THEN [c EXCEPT ![IndexOf(c, e.key)] = e]
    ELSE Append(c, e)

\* The eviction of APICache.set: the first key of the Map goes.
EvictLast(c) == SubSeq(c, 1, Len(c) - 1)
Evict(c) == Tail(c)

\* APICache.set(key, data, ttl) at time t.
CacheEvictStep(c) == IF Len(c) >= maxSize THEN Evict(c) ELSE c
CacheSetNoTTL(c, k, d, ttl, t) ==
  MapSet(CacheEvictStep(c),
         [key |-> k, data |-> d, timestamp |-> t, expires |-> t])
CacheSet(c, k, d, ttl, t) ==
  MapSet(CacheEvictStep(c),
         [key |-> k, data |-> d, timestamp |-> t, expires |-> t + ttl])

\* The expiry test of APICache.get.
Expired(t, e) == t > e.expires

\* APICache.get(key) at time t: the value returned ...
CacheGetValue(c, k, t) ==
  IF ~HasKey(c, k) THEN Null
  ELSE IF Expired(t, c[IndexOf(c, k)]) THEN Null
  ELSE c[IndexOf(c, k)].data

\* get returns an entry's data (a response object, truthy for `if (cached)`).
GetReturnsEntry(c, k, t) == HasKey(c, k) /\ ~Expired(t, c[IndexOf(c, k)])

\* ... and the Map it leaves.
CacheGetMap(c, k, t) ==
  IF HasKey(c, k) /\ Expired(t, c[IndexOf(c, k)]) THEN MapDelete(c, k) ELSE c

NoWrite == [data |-> Null, expires |-> 0]
NoGet == [key |-> 0, data |-> Null]

\* No run of a handler is under way.
NoRun ==
  [pc |-> "idle", agents |-> << >>, steps |-> << >>, i |-> 0,
   sections |-> << >>, outcomes |-> << >>]

\* No answer yet: kind is "none" before the first message, "typing" while the
\* typing indicator is the last message of the chat.
NoReturn ==
  [kind |-> "none", fixed |-> "", sections |-> << >>, agentType |-> "",
   multiAgent |-> FALSE]

\* The store and the handler before any message: initialState of the store.
StoreInit ==
  /\ workflow = << >>
  /\ isProcessing = FALSE
  /\ run = NoRun
  /\ earlier = NoRun
  /\ result = NoReturn
  /\ runs = 0

\* No function is applied on its own.
NoCall == [op |-> "none"]
NotReturned == [done |-> FALSE]
CallIdle == args = NoCall /\ returned = NotReturned

FlowIdle == handler = "none" /\ StoreInit /\ CallIdle

\* The indices of the requests of the model (Requests).
RequestIds == {1, 2, 3, 4}

\* The client after its construction.
ClientInit ==
  /\ requests = << >>
  /\ requestQueue = << >>
  /\ processing = FALSE
  /\ workers = {}
  /\ calls = << >>
  /\ last = [id |-> 0]
  /\ fresh = [r \in RequestIds |-> [id |-> 0, until |-> -1]]
  /\ invoked = [r \in RequestIds |-> -1]

CacheInit ==
  /\ cache = <<>>
  /\ lastGet = NoGet
  /\ written = [k \in CacheKeys |-> NoWrite]
  /\ lastSetKey = 0
  /\ insertedAt = [k \in CacheKeys |-> 0]
  /\ setCount = 0
  /\ evictedKey = 0
  /\ oldestBefore = 0

CacheTick ==
  /\ now < MaxTime
  /\ now' = now + 1
  /\ lastGet' = NoGet
  /\ written' = [k \in CacheKeys |->
                  IF written[k].expires < now' THEN NoWrite ELSE written[k]]
  /\ UNCHANGED <<cache, lastSetKey, insertedAt, setCount, evictedKey, oldestBefore>>
  /\ UNCHANGED clientVars
  /\ UNCHANGED flowVars
  /\ UNCHANGED callVars

\* The key with the least insertion number among the keys of c (0 when empty).
OldestKey(c) ==
  IF Len(c) = 0 THEN 0
  ELSE CHOOSE j \in CacheKeys :
         /\ HasKey(c, j)
         /\ \A i \in CacheKeys : HasKey(c, i) => insertedAt[j] <= insertedAt[i]

\* The keys a step removed from the Map.
Lost(c, c2) == {j \in CacheKeys : HasKey(c, j) /\ ~HasKey(c2, j)}

SetOp(k, d) ==
  /\ setCount < MaxSets
  /\ cache' = CacheSet(cache, k, d, defaultTTL, now)
  /\ lastGet' = NoGet
  /\ written' = [written EXCEPT ![k] = [data |-> d, expires |-> now + defaultTTL]]
  /\ lastSetKey' = k
  /\ setCount' = setCount + 1
  /\ insertedAt' = [j \in CacheKeys |->
                     IF ~HasKey(cache', j) THEN 0
                     ELSE IF j = k /\ ~HasKey(CacheEvictStep(cache), k) THEN setCount'
                     ELSE insertedAt[j]]
  /\ evictedKey' = IF Lost(cache, cache') = {} THEN 0
                   ELSE CHOOSE j \in Lost(cache, cache') : TRUE
  /\ oldestBefore' = OldestKey(cache)
  /\ UNCHANGED <<now, clientVars>>
  /\ UNCHANGED flowVars
  /\ UNCHANGED callVars

GetOp(k) ==
  /\ lastGet' = [key |-> k, data |-> CacheGetValue(cache, k, now)]
  /\ cache' = CacheGetMap(cache, k, now)
  /\ insertedAt' = [j \in CacheKeys |-> IF HasKey(cache', j) THEN insertedAt[j] ELSE 0]
  /\ UNCHANGED <<now, written, lastSetKey, setCount, evictedKey, oldestBefore, clientVars>>
  /\ UNCHANGED flowVars
  /\ UNCHANGED callVars

\* APICache.clear()
ClearOp ==
  /\ cache # <<>>
  /\ cache' = <<>>
  /\ lastGet' = NoGet
  /\ written' = [k \in CacheKeys |-> NoWrite]
  /\ lastSetKey' = 0
  /\ insertedAt' = [k \in CacheKeys |-> 0]
  /\ UNCHANGED <<now, setCount, evictedKey, oldestBefore, clientVars>>
  /\ UNCHANGED flowVars
  /\ UNCHANGED callVars

vars == <<now, cacheVars, clientVars, flowVars, callVars>>

InitCache == now = 0 /\ CacheInit /\ ClientInit /\ FlowIdle

NextCache ==
  \/ CacheTick
  \/ \E k \in CacheKeys, d \in Values : SetOp(k, d)
  \/ \E k \in CacheKeys : GetOp(k)
  \/ ClearOp

SpecCache == InitCache /\ [][NextCache]_vars


(* ------------------------ generateCacheKey --------------------------- *)
\* A message content is a sequence of character codes (String.charCodeAt).
\* messages.map(m => m.content).join('|'): 124 is the code of '|'.
RECURSIVE JoinContents(_)
JoinContents(ms) ==
  IF Len(ms) = 0 THEN <<>>
  ELSE IF Len(ms) = 1 THEN ms[1]
  ELSE ms[1] \o <<124>> \o JoinContents(Tail(ms))

\* The base64 alphabet of btoa, by sextet; index 65 is the padding '='.
B64Chars ==
  << "A","B","C","D","E","F","G","H","I","J","K","L","M","N","O","P",
     "Q","R","S","T","U","V","W","X","Y","Z","a","b","c","d","e","f",
     "g","h","i","j","k","l","m","n","o","p","q","r","s","t","u","v",
     "w","x","y","z","0","1","2","3","4","5","6","7","8","9","+","/","=" >>

\* btoa of a group of one to three bytes: four characters.
B64Group(g) ==
  LET b1 == g[1]
      b2 == IF Len(g) >= 2 THEN g[2] ELSE 0
      b3 == IF Len(g) >= 3 THEN g[3] ELSE 0
  IN  << B64Chars[(b1 \div 4) + 1],
         B64Chars[((b1 % 4) * 16 + (b2 \div 16)) + 1],
         IF Len(g) >= 2 THEN B64Chars[((b2 % 16) * 4 + (b3 \div 64)) + 1] ELSE "=",
         IF Len(g) >= 3 THEN B64Chars[(b3 % 64) + 1] ELSE "=" >>

\* btoa(content), as the sequence of its characters.
RECURSIVE Btoa(_)
Btoa(b) ==
  IF Len(b) = 0 THEN <<>>
  ELSE IF Len(b) <= 3 THEN B64Group(b)
  ELSE B64Group(SubSeq(b, 1, 3)) \o Btoa(SubSeq(b, 4, Len(b)))

\* String.slice(0, n)
SliceFrom0(q, n) == IF Len(q) <= n THEN q ELSE SubSeq(q, 1, n)

\* The characters of a sequence, as one string.
RECURSIVE Chars(_)
Chars(q) == IF Len(q) = 0 THEN "" ELSE q[1] \o Chars(Tail(q))

\* The number of base64 characters of the content that the key keeps.
KeySlice == 50

\* generateCacheKey(messages, model, temperature); temperature is the text
\* the template literal prints for the number.
GenerateCacheKey(messages, model, temperature) ==
  "chat:" \o model \o ":" \o temperature \o ":"
          \o Chars(SliceFrom0(Btoa(JoinContents(messages)), KeySlice))

(* ------------------------- claims on APICache ------------------------ *)
\* C2 as claimed: a get of a key, after a set of that key with no later set
\* of the same key and before the entry's expiry, returns the stored value.
C2_RoundTripNoSetOfKey ==
  (/\ lastGet.key # 0
   /\ written[lastGet.key] # NoWrite
   /\ now < written[lastGet.key].expires)
  => lastGet.data = written[lastGet.key].data

\* C2 as amended: a get of a key that immediately follows the set of that key
\* (no set of any key and no clear in between), before the entry's expiry,
\* returns exactly the stored value.
C2_RoundTripImmediate ==
  (/\ lastGet.key # 0
   /\ lastGet.key = lastSetKey
   /\ written[lastGet.key] # NoWrite
   /\ now < written[lastGet.key].expires)
  => lastGet.data = written[lastGet.key].data

\* C27: a get returns the data of an entry only before the entry's expiry
\* (the time of its set plus the TTL): at the expiry and after it, get
\* returns null.
C27_ReadableOnlyBeforeExpiry ==
  (lastGet.key # 0 /\ lastGet.data # Null)
  => /\ written[lastGet.key] # NoWrite
     /\ now < written[lastGet.key].expires

\* A get that follows the set of its key, one tick later, returned a value.
C2_Witness ==
  /\ lastGet.key # 0
  /\ lastGet.key = lastSetKey
  /\ written[lastGet.key] # NoWrite
  /\ now < written[lastGet.key].expires
  /\ now > cache[IndexOf(cache, lastGet.key)].timestamp
  /\ lastGet.data = "v2"

MaxCalls == 3
\* Number of createChatCompletion calls of one behaviour of SpecRate.
MaxRateCalls == 4
\* The length of the window, in ticks (src/unnamed/part_003:1187 sets 60000 ms).
windowMs == 2
\* Requests per window (src/unnamed/part_003:1188 sets 60).
maxRequests == 2

\* requests.get(identifier), the empty list when the identifier is absent.
TimesOf(reqs, id) == IF id \in DOMAIN reqs THEN reqs[id] ELSE << >>

\* requests.set(identifier, list)
PutTimes(reqs, id, list) ==
  [j \in (DOMAIN reqs) \cup {id} |-> IF j = id THEN list ELSE reqs[j]]

\* The filter of canMakeRequest: the timestamps inside the window at time t.
KeepAtWindowStart(list, t) == SelectSeq(list, LAMBDA time : time >= t - windowMs)
ValidRequests(list, t) == SelectSeq(list, LAMBDA time : time > t - windowMs)

\* canMakeRequest(identifier) at time t: the Map it leaves ...
PruneRequests(reqs, id, t) == PutTimes(reqs, id, ValidRequests(TimesOf(reqs, id), t))

\* ... and its answer.
AdmitsUpToMax(reqs, id, t) == Len(PruneRequests(reqs, id, t)[id]) <= maxRequests
CanMakeRequest(reqs, id, t) == Len(PruneRequests(reqs, id, t)[id]) < maxRequests

\* recordRequest(identifier) at time t.
RecordRequest(reqs, id, t) == PutTimes(reqs, id, Append(TimesOf(reqs, id), t))

(* ------------------------ EnhancedOpenAIClient ----------------------- *)
\* The identifier createChatCompletion charges.
identifier == "openai-chat"

\* Character codes of the message contents the model submits.
SystemPrompt == <<83, 89, 83>>
Hello == <<104, 105>>
Other == <<104, 111>>

\* The first 41 characters of ENHANCED_AGENTS.eda.systemPrompt:
\* "You are a data exploration specialist who".
ExplorerPrompt ==
  << 89, 111, 117, 32, 97, 114, 101, 32, 97, 32, 100, 97, 116, 97, 32, 101, 120, 112, 108, 111, 114, 97, 116, 105, 111, 110, 32, 115, 112, 101, 99, 105, 97, 108, 105, 115, 116, 32, 119, 104, 111>>

\* The chat requests the model submits: model, temperature, messages. The
\* last two are two user messages to the agent of one system prompt.
Requests ==
  << [model |-> "gpt-4o-mini", temperature |-> "0.5", messages |-> <<SystemPrompt, Hello>>],
     [model |-> "gpt-4o-mini", temperature |-> "0.5", messages |-> <<SystemPrompt, Other>>],
     [model |-> "gpt-4o-mini", temperature |-> "0.5", messages |-> <<ExplorerPrompt, Hello>>],
     [model |-> "gpt-4o-mini", temperature |-> "0.5", messages |-> <<ExplorerPrompt, Other>>] >>

\* The (request, useCache) pairs of the calls.
CallParams == {<<1, TRUE>>, <<1, FALSE>>, <<2, TRUE>>}

\* The cache keys of the requests.
CacheKeyOf ==
  [r \in 1..Len(Requests) |->
     GenerateCacheKey(Requests[r].messages, Requests[r].model, Requests[r].temperature)]

KeyOf(r) == CacheKeyOf[r]

\* The (request, useCache) pairs of the calls to one agent.
AgentCallParams == {<<3, TRUE>>, <<4, TRUE>>}

\* What the provider throws: status and code of the error (0 and "" when the
\* error has none), and its message.
E429 == [status |-> 429, code |-> "", message |-> "Too Many Requests"]
E401 == [status |-> 401, code |-> "", message |-> "Incorrect API key provided"]
E503 == [status |-> 503, code |-> "", message |-> "Service Unavailable"]
ENotFound == [status |-> 0, code |-> "ENOTFOUND", message |-> "getaddrinfo ENOTFOUND"]
EConnRefused == [status |-> 0, code |-> "ECONNREFUSED", message |-> "connect ECONNREFUSED"]
EBadRequest == [status |-> 400, code |-> "", message |-> "Bad request"]
ENoMessage == [status |-> 0, code |-> "", message |-> ""]
ProviderErrors == {E429, E401, E503, ENotFound, EConnRefused, EBadRequest, ENoMessage}

\* The error of the local admission refusal (createChatCompletion).
RateLimitMessage == "Rate limit exceeded. Please wait before making another request."

\* handleError with the unavailable class beginning above status 500.
HandleErrorAbove500(error) ==
  IF error.status = 429
    THEN "Rate limit exceeded. Please wait a moment before trying again."
  ELSE IF error.status = 401
    THEN "Invalid API key. Please check your OpenAI configuration."
  ELSE IF error.status > 500
    THEN "OpenAI service is temporarily unavailable. Please try again later."
  ELSE IF error.code = "ENOTFOUND" \/ error.code = "ECONNREFUSED"
    THEN "Network connection failed. Please check your internet connection."
  ELSE IF error.message # "" THEN error.message
  ELSE "An unexpected error occurred with the AI service."

\* handleError(error): the message of the Error it returns.
HandleError(error) ==
  IF error.status = 429
    THEN "Rate limit exceeded. Please wait a moment before trying again."
  ELSE IF error.status = 401
    THEN "Invalid API key. Please check your OpenAI configuration."
  ELSE IF error.status >= 500
    THEN "OpenAI service is temporarily unavailable. Please try again later."
  ELSE IF error.code = "ENOTFOUND" \/ error.code = "ECONNREFUSED"
    THEN "Network connection failed. Please check your internet connection."
  ELSE IF error.message # "" THEN error.message
  ELSE "An unexpected error occurred with the AI service."

\* The errors the provider throws in SpecClient.
ClientErrors == {E503}

\* A call of createChatCompletion, as it is made.
NewCall(r, uc) ==
  [req |-> r, useCache |-> uc, status |-> "queued", error |-> "", recAt |-> -1]

\* The guard of processQueue.
NeverBusy(p) == FALSE
Busy(p) == p

\* A shift that takes two closures off the queue.
ShiftTwo(q) == IF Len(q) > 1 THEN Tail(Tail(q)) ELSE Tail(q)

\* requestQueue.shift(): the queue it leaves.
Shift(q) == Tail(q)

\* The calls whose provider call is in flight.
InFlight == {i \in 1..Len(calls) : calls[i].status = "running"}

\* The calls whose timestamp was recorded inside the window that ends now.
RecordedInWindow == {i \in 1..Len(calls) : calls[i].recAt >= 0}

NoFresh == [id |-> 0, until |-> -1]

\* What the latest call found when it was made.
LastOf(r, uc, st, resp) ==
  [id |-> Len(calls) + 1, req |-> r, useCache |-> uc, status |-> st, resp |-> resp,
   alone |-> \A i \in 1..Len(calls) : calls[i].status \notin {"queued", "running"},
   inWindow |-> Cardinality(RecordedInWindow),
   expectFrom |-> IF uc /\ now < fresh[r].until THEN fresh[r].id ELSE 0,
   twin |-> uc /\ now < invoked[r]]

\* The order of the two checks of createChatCompletion: the cache is asked
\* before the rate limiter, so a cached response is returned whether or not
\* the rate limiter would admit the call.
RateLimiterFirst(cached, admitted) == cached /\ admitted
CacheFirst(cached, admitted) == cached

\* createChatCompletion({model, messages, temperature, useCache}) up to its
\* first suspension: cache, rate limiter, queue and the start of processQueue.
Submit(r, uc) ==
  LET id == Len(calls) + 1
      key == KeyOf(r)
      hit == CacheFirst(uc /\ GetReturnsEntry(cache, key, now),
                        CanMakeRequest(requests, identifier, now))
      cache1 == IF uc THEN CacheGetMap(cache, key, now) ELSE cache
      call == NewCall(r, uc)
  IN
  /\ cache' = cache1
  /\ IF hit
       THEN /\ calls' = Append(calls, [call EXCEPT !.status = "hit"])
            /\ last' = LastOf(r, uc, "hit", CacheGetValue(cache, key, now).id)
            /\ UNCHANGED <<requests, requestQueue, processing, workers, invoked>>
       ELSE IF ~CanMakeRequest(requests, identifier, now)
       THEN /\ requests' = PruneRequests(requests, identifier, now)
            /\ calls' = Append(calls, [call EXCEPT !.status = "limited",
                                                   !.error = RateLimitMessage])
            /\ last' = LastOf(r, uc, "limited", 0)
            /\ UNCHANGED <<requestQueue, processing, workers, invoked>>
       ELSE IF Busy(processing)
       THEN /\ requests' = PruneRequests(requests, identifier, now)
            /\ requestQueue' = Append(requestQueue, id)
            /\ calls' = Append(calls, call)
            /\ last' = LastOf(r, uc, "queued", 0)
            /\ invoked' = IF uc THEN [invoked EXCEPT ![r] = now + defaultTTL] ELSE invoked
            /\ UNCHANGED <<processing, workers>>
       ELSE LET q == Append(requestQueue, id)
                first == Head(q)
                all == Append(calls, call)
            IN  /\ processing' = TRUE
                /\ requestQueue' = Shift(q)
                /\ requests' = RecordRequest(PruneRequests(requests, identifier, now),
                                             identifier, now)
                /\ workers' = workers \cup {[pc |-> "calling", call |-> first]}
                /\ calls' = [all EXCEPT ![first].status = "running", ![first].recAt = now]
                /\ last' = LastOf(r, uc, "queued", 0)
                /\ invoked' = IF uc THEN [invoked EXCEPT ![r] = now + defaultTTL] ELSE invoked
  /\ UNCHANGED <<now, fresh, lastGet, written, lastSetKey, insertedAt, setCount,
                 evictedKey, oldestBefore>>
  /\ UNCHANGED flowVars
  /\ UNCHANGED callVars

\* The provider call of a closure returns a completion: the closure caches
\* the response and resolves; processQueue goes on to its 100 ms delay.
ProviderSucceeds(w) ==
  LET c == calls[w.call]
      response == [id |-> w.call, model |-> Requests[c.req].model]
  IN
  /\ w \in workers /\ w.pc = "calling"
  /\ cache' = IF c.useCache THEN CacheSet(cache, KeyOf(c.req), response, defaultTTL, now)
              ELSE cache
  /\ fresh' = IF c.useCache
                THEN [r \in DOMAIN fresh |->
                        IF r = c.req THEN [id |-> w.call, until |-> now + defaultTTL]
                        ELSE NoFresh]
                ELSE fresh
  /\ calls' = [calls EXCEPT ![w.call].status = "resolved"]
  /\ workers' = (workers \ {w}) \cup {[w EXCEPT !.pc = "delay"]}
  /\ UNCHANGED <<now, requests, requestQueue, processing, last, invoked, lastGet, written,
                 lastSetKey, insertedAt, setCount, evictedKey, oldestBefore>>
  /\ UNCHANGED flowVars
  /\ UNCHANGED callVars

\* The provider call throws and the closure takes back the timestamp it
\* recorded.
ProviderFailsUncharged(w, error) ==
  /\ w \in workers /\ w.pc = "calling"
  /\ calls' = [calls EXCEPT ![w.call].status = "failed",
                            ![w.call].error = HandleError(error)]
  /\ workers' = (workers \ {w}) \cup {[w EXCEPT !.pc = "delay"]}
  /\ requests' =
       LET list == TimesOf(requests, identifier)
       IN PutTimes(requests, identifier,
                   IF list = << >> THEN list ELSE SubSeq(list, 1, Len(list) - 1))
  /\ UNCHANGED <<now, cache, requestQueue, processing, last, fresh, invoked,
                 lastGet, written, lastSetKey, insertedAt, setCount, evictedKey, oldestBefore>>
  /\ UNCHANGED flowVars
  /\ UNCHANGED callVars

\* The provider call throws: the closure rejects with handleError's error.
ProviderFails(w, error) ==
  /\ w \in workers /\ w.pc = "calling"
  /\ calls' = [calls EXCEPT ![w.call].status = "failed",
                            ![w.call].error = HandleError(error)]
  /\ workers' = (workers \ {w}) \cup {[w EXCEPT !.pc = "delay"]}
  /\ UNCHANGED <<now, cache, requests, requestQueue, processing, last, fresh, invoked,
                 lastGet, written, lastSetKey, insertedAt, setCount, evictedKey, oldestBefore>>
  /\ UNCHANGED flowVars
  /\ UNCHANGED callVars

\* The delay of processQueue ends: the loop takes the next closure, or the
\* activation ends and clears the flag.
DelayDone(w) ==
  /\ w \in workers /\ w.pc = "delay"
  /\ IF Len(requestQueue) > 0
       THEN LET first == Head(requestQueue)
            IN  /\ requestQueue' = Shift(requestQueue)
                /\ requests' = RecordRequest(requests, identifier, now)
                /\ workers' = (workers \ {w}) \cup {[pc |-> "calling", call |-> first]}
                /\ calls' = [calls EXCEPT ![first].status = "running", ![first].recAt = now]
                /\ UNCHANGED processing
       ELSE /\ processing' = FALSE
            /\ workers' = workers \ {w}
            /\ UNCHANGED <<requestQueue, requests, calls>>
  /\ UNCHANGED <<now, cache, last, fresh, invoked, lastGet, written, lastSetKey, insertedAt,
                 setCount, evictedKey, oldestBefore>>
  /\ UNCHANGED flowVars
  /\ UNCHANGED callVars

\* Date.now() advances; what has left the window or outlived the TTL is
\* forgotten by the bookkeeping of the calls.
ClientTick ==
  /\ now < MaxTime
  /\ now' = now + 1
  /\ calls' = [i \in 1..Len(calls) |->
                 IF calls[i].recAt >= 0 /\ calls[i].recAt <= now' - windowMs
                   THEN [calls[i] EXCEPT !.recAt = -1] ELSE calls[i]]
  /\ fresh' = [r \in DOMAIN fresh |-> IF fresh[r].until <= now' THEN NoFresh ELSE fresh[r]]
  /\ invoked' = [r \in DOMAIN invoked |-> IF invoked[r] <= now' THEN -1 ELSE invoked[r]]
  /\ UNCHANGED <<cacheVars, requests, requestQueue, processing, workers, last>>
  /\ UNCHANGED flowVars
  /\ UNCHANGED callVars

InitClient == now = 0 /\ CacheInit /\ ClientInit /\ FlowIdle

NextClient ==
  \/ ClientTick
  \/ \E p \in CallParams : Len(calls) < MaxCalls /\ Submit(p[1], p[2])
  \/ \E w \in workers : ProviderSucceeds(w)
  \/ \E w \in workers, error \in ClientErrors : ProviderFails(w, error)
  \/ \E w \in workers : DelayDone(w)

SpecClient == InitClient /\ [][NextClient]_vars

\* The client under calls that bypass the cache (useCache: false): every call
\* reaches the rate limiter.
NextRate ==
  \/ ClientTick
  \/ Len(calls) < MaxRateCalls /\ Submit(1, FALSE)
  \/ \E w \in workers : ProviderSucceeds(w)
  \/ \E w \in workers, error \in ClientErrors : ProviderFails(w, error)
  \/ \E w \in workers : DelayDone(w)

SpecRate == InitClient /\ [][NextRate]_vars

\* The client under cached calls to one agent: the requests share the system
\* prompt and differ in the user message.
NextAgent ==
  \/ ClientTick
  \/ \E p \in AgentCallParams : Len(calls) < MaxCalls /\ Submit(p[1], p[2])
  \/ \E w \in workers : ProviderSucceeds(w)
  \/ \E w \in workers, error \in ClientErrors : ProviderFails(w, error)
  \/ \E w \in workers : DelayDone(w)

SpecAgent == InitClient /\ [][NextAgent]_vars


(* -------------------- claims on EnhancedOpenAIClient ----------------- *)
\* C1: a call that misses the cache and is made when no earlier call is
\* pending is admitted exactly when fewer than maxRequests calls were
\* recorded inside the window that ends at the call: the first maxRequests
\* calls of a window are admitted, the next one is rejected with the local
\* rate-limit error, and calls are admitted again once the window has passed
\* the recorded timestamps.
C1_WindowAdmission ==
  (last.id # 0 /\ last.status # "hit" /\ last.alone)
  => /\ (last.status = "limited") = (last.inWindow >= maxRequests)
     /\ last.status = "limited" => calls[last.id].error = RateLimitMessage

\* The call after maxRequests admitted calls was rejected inside the window,
\* and a later call, made after the window had passed, was admitted.
C1_Witness ==
  /\ Len(calls) > maxRequests + 1
  /\ \A i \in 1..maxRequests : calls[i].status \in {"resolved", "failed"}
  /\ calls[maxRequests + 1].status = "limited"
  /\ last.id = maxRequests + 2
  /\ last.alone /\ last.inWindow = 0
  /\ calls[last.id].status = "running"

\* C4 as claimed: when a call with useCache went to the provider, an
\* identical call with useCache made within the TTL is a cache hit.
C4_SecondIsAlwaysHit ==
  (last.id # 0 /\ last.twin) => last.status = "hit"

\* C4 as amended: when a call with useCache has resolved and its response was
\* stored, an identical call with useCache made after that, before the
\* entry's expiry and before any other response was stored, is answered from
\* the cache with that response and goes neither to the queue nor to the
\* provider.
C4_SecondIsHitAfterStore ==
  (last.id # 0 /\ last.expectFrom # 0)
  => /\ last.status = "hit"
     /\ last.resp = last.expectFrom
     /\ calls[last.id].status = "hit"
     /\ calls[last.id].recAt = -1
     /\ last.id \notin InFlight
     /\ \A i \in 1..Len(requestQueue) : requestQueue[i] # last.id

\* The second of two identical cached calls, made one tick after the first
\* resolved, got the first call's response.
C4_Witness ==
  /\ last.id = 2 /\ last.expectFrom = 1 /\ last.resp = 1
  /\ calls[1].status = "resolved" /\ calls[2].status = "hit"
  /\ calls[1].req = calls[2].req
  /\ now > 0

\* C11: a call with useCache whose key has a live entry in the cache is
\* answered with that entry at once: it is not rejected by the rate limiter,
\* records no timestamp, is not put in the queue and starts no provider call.
C11_CacheBeforeRateLimiter ==
  [][(/\ last'.id # last.id
      /\ last'.useCache
      /\ GetReturnsEntry(cache, KeyOf(last'.req), now))
     => /\ last'.status = "hit"
        /\ calls'[last'.id].status = "hit"
        /\ last'.resp = CacheGetValue(cache, KeyOf(last'.req), now).id
        /\ requests' = requests
        /\ requestQueue' = requestQueue
        /\ workers' = workers
        /\ processing' = processing]_vars

\* A cached call was answered from the cache while maxRequests timestamps
\* were recorded inside the window.
C11_Witness ==
  /\ last.id # 0 /\ last.status = "hit"
  /\ last.inWindow >= maxRequests
  /\ Len(TimesOf(requests, identifier)) >= maxRequests

\* C12: a call is answered from the cache only with the response that an
\* earlier call with the same model, the same temperature and the same list
\* of message contents stored.
C12_HitOnlyOwnResponse ==
  (last.id # 0 /\ last.status = "hit")
  => Requests[calls[last.resp].req] = Requests[last.req]

\* C21: the provider calls issued inside the window that ends now are never
\* more than maxRequests, also when calls are made while earlier ones wait
\* in the queue.
C21_AtMostMaxInWindow ==
  /\ Cardinality(RecordedInWindow) <= maxRequests
  /\ Len(ValidRequests(TimesOf(requests, identifier), now)) <= maxRequests

\* The calls that were put in the queue: every call but the cache hits and
\* the calls the rate limiter refused. Calls are numbered as they are made,
\* so the queued calls are enqueued in the order of their numbers.
Enqueued == {i \in 1..Len(calls) : calls[i].status \notin {"hit", "limited"}}
Settled == {i \in 1..Len(calls) : calls[i].status \in {"resolved", "failed"}}

\* C24: the queue is served in the order of arrival: when the provider call
\* of a queued call has started, the provider call of every call enqueued
\* before it is over, and the calls still waiting are in the queue in the
\* order they were made.
C24_Fifo ==
  /\ \A i \in Enqueued, j \in Enqueued :
       (i < j /\ (j \in InFlight \/ j \in Settled)) => i \in Settled
  /\ \A m \in 1..Len(requestQueue), n \in 1..Len(requestQueue) :
       m < n => requestQueue[m] < requestQueue[n]

\* The second and the third call waited in the queue together; the second
\* is over and the third is in flight.
C24_Witness ==
  /\ Len(calls) >= 3
  /\ {1, 2, 3} \subseteq Enqueued
  /\ 1 \in Settled /\ 2 \in Settled /\ 3 \in InFlight

\* The provider call of call i fails in this step.
FailsNow(i) == calls[i].status = "running" /\ calls'[i].status = "failed"

FairRate ==
  /\ WF_vars(\E w \in workers :
               \/ ProviderSucceeds(w)
               \/ \E error \in ClientErrors : ProviderFails(w, error))
  /\ WF_vars(\E w \in workers : DelayDone(w))

SpecRateLive == SpecRate /\ FairRate

\* C28: every call that is put in the queue is executed and settled in the
\* end, and a settled call stays as it was settled: no call is stranded in
\* the queue.
C28_EveryQueuedCallSettles ==
  /\ \A i \in 1..MaxRateCalls :
       (Len(calls) >= i /\ calls[i].status \in {"queued", "running"})
       ~> (Len(calls) >= i /\ calls[i].status \in {"resolved", "failed"})
  /\ [][\A i \in 1..Len(calls) :
          calls[i].status \in {"resolved", "failed"}
          => calls'[i].status = calls[i].status]_vars

\* Three calls that went through the queue are settled, the queue is empty
\* and the activation of processQueue is over.
C28_Witness ==
  /\ Len(calls) >= 3
  /\ {1, 2, 3} \subseteq Settled
  /\ requestQueue = << >>
  /\ ~processing

\* C5: at most one provider call of the client is in flight.
C5_SingleFlight == Cardinality(InFlight) <= 1

\* The second call is in flight after the first was settled, while a third
\* call, made meanwhile, waits in the queue.
C5_Witness ==
  /\ InFlight = {2}
  /\ requestQueue = <<3>>
  /\ calls[1].status \in {"resolved", "failed"}

(* ------------------------- workflow planners -------------------------- *)
\* The user messages and the patterns of the planners, as sequences of
\* characters.

\* /(forecast|predict|train|process|clean)/i of selectAgent.
ForecastingRegexA ==
  { <<"f","o","r","e","c","a","s","t">>,
    <<"p","r","e","d","i","c","t">>,
    <<"t","r","a","i","n">>,
    <<"p","r","o","c","e","s","s">>,
    <<"c","l","e","a","n">> }

\* /(start|begin|help|guide|getting started|onboard|setup)/i
OnboardingRegex ==
  { <<"s","t","a","r","t">>,
    <<"b","e","g","i","n">>,
    <<"h","e","l","p">>,
    <<"g","u","i","d","e">>,
    <<"g","e","t","t","i","n","g"," ","s","t","a","r","t","e","d">>,
    <<"o","n","b","o","a","r","d">>,
    <<"s","e","t","u","p">> }

\* /(explore|eda|data quality|pattern|distribution|statistics)/i
ExploreRegex ==
  { <<"e","x","p","l","o","r","e">>,
    <<"e","d","a">>,
    <<"d","a","t","a"," ","q","u","a","l","i","t","y">>,
    <<"p","a","t","t","e","r","n">>,
    <<"d","i","s","t","r","i","b","u","t","i","o","n">>,
    <<"s","t","a","t","i","s","t","i","c","s">> }

\* /(forecast|predict|future)/i
NoForecastRegex ==
  { <<"f","o","r","e","c","a","s","t">>,
    <<"p","r","e","d","i","c","t">>,
    <<"f","u","t","u","r","e">> }

\* /(forecast|predict|future|projection|run.*forecast)/i without its last alternative.
ForecastRegex ==
  { <<"f","o","r","e","c","a","s","t">>,
    <<"p","r","e","d","i","c","t">>,
    <<"f","u","t","u","r","e">>,
    <<"p","r","o","j","e","c","t","i","o","n">> }

\* /(business insight|recommendation|strategy|opportunity)/i
InsightsRegex ==
  { <<"b","u","s","i","n","e","s","s"," ","i","n","s","i","g","h","t">>,
    <<"r","e","c","o","m","m","e","n","d","a","t","i","o","n">>,
    <<"s","t","r","a","t","e","g","y">>,
    <<"o","p","p","o","r","t","u","n","i","t","y">> }

\* /(forecast|explore)/i
NoForecastExploreRegex ==
  { <<"f","o","r","e","c","a","s","t">>,
    <<"e","x","p","l","o","r","e">> }

\* /(complete analysis|comprehensive|end to end|full workflow)/i
CompleteRegex ==
  { <<"c","o","m","p","l","e","t","e"," ","a","n","a","l","y","s","i","s">>,
    <<"c","o","m","p","r","e","h","e","n","s","i","v","e">>,
    <<"e","n","d"," ","t","o"," ","e","n","d">>,
    <<"f","u","l","l"," ","w","o","r","k","f","l","o","w">> }

\* /(forecast|predict|train|process|complete analysis|end to end)/i
ForecastRegexC ==
  { <<"f","o","r","e","c","a","s","t">>,
    <<"p","r","e","d","i","c","t">>,
    <<"t","r","a","i","n">>,
    <<"p","r","o","c","e","s","s">>,
    <<"c","o","m","p","l","e","t","e"," ","a","n","a","l","y","s","i","s">>,
    <<"e","n","d"," ","t","o"," ","e","n","d">> }

\* AGENTS.eda.keywords
KeywordsEdaA ==
  { <<"e","x","p","l","o","r","e">>,
    <<"e","d","a">>,
    <<"a","n","a","l","y","z","e">>,
    <<"d","i","s","t","r","i","b","u","t","i","o","n">>,
    <<"p","a","t","t","e","r","n">>,
    <<"c","o","r","r","e","l","a","t","i","o","n">>,
    <<"o","u","t","l","i","e","r">>,
    <<"s","t","a","t","i","s","t","i","c","s">>,
    <<"s","u","m","m","a","r","y">>,
    <<"d","a","t","a"," ","q","u","a","l","i","t","y">> }

\* AGENTS.forecasting.keywords
KeywordsForecastingA ==
  { <<"f","o","r","e","c","a","s","t">>,
    <<"p","r","e","d","i","c","t">>,
    <<"f","u","t","u","r","e">>,
    <<"p","r","o","j","e","c","t","i","o","n">>,
    <<"t","r","e","n","d">>,
    <<"t","i","m","e"," ","s","e","r","i","e","s">>,
    <<"a","r","i","m","a">>,
    <<"p","r","o","p","h","e","t">>,
    <<"p","r","e","d","i","c","t","i","o","n">> }

\* AGENTS.whatif.keywords
KeywordsWhatifA ==
  { <<"w","h","a","t"," ","i","f">>,
    <<"s","c","e","n","a","r","i","o">>,
    <<"s","i","m","u","l","a","t","e">>,
    <<"i","m","p","a","c","t">>,
    <<"s","e","n","s","i","t","i","v","i","t","y">>,
    <<"a","s","s","u","m","p","t","i","o","n">>,
    <<"c","o","m","p","a","r","e"," ","s","c","e","n","a","r","i","o","s">>,
    <<"o","u","t","c","o","m","e">> }

\* AGENTS.comparative.keywords
KeywordsComparativeA ==
  { <<"c","o","m","p","a","r","e">>,
    <<"c","o","m","p","a","r","i","s","o","n">>,
    <<"b","e","n","c","h","m","a","r","k">>,
    <<"v","e","r","s","u","s">>,
    <<"v","s">>,
    <<"d","i","f","f","e","r","e","n","c","e">>,
    <<"p","e","r","f","o","r","m","a","n","c","e"," ","g","a","p">>,
    <<"r","e","l","a","t","i","v","e">> }

\* ENHANCED_AGENTS.onboarding.keywords
KeywordsOnboarding ==
  { <<"s","t","a","r","t">>,
    <<"b","e","g","i","n">>,
    <<"s","e","t","u","p">>,
    <<"h","e","l","p">>,
    <<"g","u","i","d","e">>,
    <<"o","n","b","o","a","r","d">>,
    <<"g","e","t","t","i","n","g"," ","s","t","a","r","t","e","d">> }

\* ENHANCED_AGENTS.eda.keywords
KeywordsEda ==
  { <<"e","x","p","l","o","r","e">>,
    <<"e","d","a">>,
    <<"a","n","a","l","y","z","e">>,
    <<"d","i","s","t","r","i","b","u","t","i","o","n">>,
    <<"p","a","t","t","e","r","n">>,
    <<"c","o","r","r","e","l","a","t","i","o","n">>,
    <<"o","u","t","l","i","e","r">>,
    <<"s","t","a","t","i","s","t","i","c","s">>,
    <<"s","u","m","m","a","r","y">>,
    <<"d","a","t","a"," ","q","u","a","l","i","t","y">> }

\* ENHANCED_AGENTS.preprocessing.keywords
KeywordsPreprocessing ==
  { <<"c","l","e","a","n">>,
    <<"p","r","e","p","r","o","c","e","s","s">>,
    <<"p","r","e","p","a","r","e">>,
    <<"m","i","s","s","i","n","g">>,
    <<"o","u","t","l","i","e","r","s">>,
    <<"t","r","a","n","s","f","o","r","m">>,
    <<"n","o","r","m","a","l","i","z","e">>,
    <<"f","e","a","t","u","r","e"," ","e","n","g","i","n","e","e","r","i","n","g">> }

\* ENHANCED_AGENTS.modeling.keywords
KeywordsModeling ==
  { <<"m","o","d","e","l">>,
    <<"t","r","a","i","n">>,
    <<"m","a","c","h","i","n","e"," ","l","e","a","r","n","i","n","g">>,
    <<"a","l","g","o","r","i","t","h","m">>,
    <<"x","g","b","o","o","s","t">>,
    <<"p","r","o","p","h","e","t">>,
    <<"l","i","g","h","t","g","b","m">>,
    <<"c","r","o","s","s"," ","v","a","l","i","d","a","t","i","o","n">> }

\* ENHANCED_AGENTS.forecasting.keywords
KeywordsForecasting ==
  { <<"f","o","r","e","c","a","s","t">>,
    <<"p","r","e","d","i","c","t">>,
    <<"f","u","t","u","r","e">>,
    <<"p","r","o","j","e","c","t","i","o","n">>,
    <<"t","r","e","n","d">>,
    <<"t","i","m","e"," ","s","e","r","i","e","s">>,
    <<"p","r","e","d","i","c","t","i","o","n"," ","i","n","t","e","r","v","a","l","s">> }

\* ENHANCED_AGENTS.validation.keywords
KeywordsValidation ==
  { <<"v","a","l","i","d","a","t","e">>,
    <<"t","e","s","t">>,
    <<"a","c","c","u","r","a","c","y">>,
    <<"p","e","r","f","o","r","m","a","n","c","e">>,
    <<"m","e","t","r","i","c","s">>,
    <<"e","v","a","l","u","a","t","i","o","n">>,
    <<"r","e","s","i","d","u","a","l","s">> }

\* ENHANCED_AGENTS.insights.keywords
KeywordsInsights ==
  { <<"i","n","s","i","g","h","t","s">>,
    <<"b","u","s","i","n","e","s","s">>,
    <<"s","t","r","a","t","e","g","y">>,
    <<"i","m","p","a","c","t">>,
    <<"r","e","c","o","m","m","e","n","d","a","t","i","o","n","s">>,
    <<"o","p","p","o","r","t","u","n","i","t","i","e","s">>,
    <<"r","i","s","k","s">> }

\* The user message "help me get started".
Message1 == <<"h","e","l","p"," ","m","e"," ","g","e","t"," ","s","t","a","r","t","e","d">>

\* The user message "explore my data".
Message2 == <<"e","x","p","l","o","r","e"," ","m","y"," ","d","a","t","a">>

\* The user message "Forecast next month".
Message3 == <<"F","o","r","e","c","a","s","t"," ","n","e","x","t"," ","m","o","n","t","h">>

\* The user message "complete analysis and forecast".
Message4 == <<"c","o","m","p","l","e","t","e"," ","a","n","a","l","y","s","i","s"," ","a","n","d"," ","f","o","r","e","c","a","s","t">>

\* The user message "end to end review".
Message5 == <<"e","n","d"," ","t","o"," ","e","n","d"," ","r","e","v","i","e","w">>

\* The user message "business strategy".
Message6 == <<"b","u","s","i","n","e","s","s"," ","s","t","r","a","t","e","g","y">>

\* The user message "hello".
Message7 == <<"h","e","l","l","o">>

\* The user message "clean the data".
Message8 == <<"c","l","e","a","n"," ","t","h","e"," ","d","a","t","a">>

\* The user message "what if prices rise".
Message9 == <<"w","h","a","t"," ","i","f"," ","p","r","i","c","e","s"," ","r","i","s","e">>

\* The user message "compare regions".
Message10 == <<"c","o","m","p","a","r","e"," ","r","e","g","i","o","n","s">>

\* The user message "validate accuracy".
Message11 == <<"v","a","l","i","d","a","t","e"," ","a","c","c","u","r","a","c","y">>

\* The user message "train a model".
Message12 == <<"t","r","a","i","n"," ","a"," ","m","o","d","e","l">>

\* The user messages the model submits.
Messages == <<Message1, Message2, Message3, Message4, Message5, Message6, Message7, Message8, Message9, Message10, Message11, Message12>>

\* String.prototype.toLowerCase on the letters A-Z.
UpperCase == <<"A","B","C","D","E","F","G","H","I","J","K","L","M","N","O","P","Q","R","S","T","U","V","W","X","Y","Z">>
LowerCase == <<"a","b","c","d","e","f","g","h","i","j","k","l","m","n","o","p","q","r","s","t","u","v","w","x","y","z">>

\* "run" and "forecast" of the alternative run.*forecast.
RunWord == <<"r","u","n">>
ForecastWord == <<"f","o","r","e","c","a","s","t">>

\* userMessage.toLowerCase()
ToLowerCase(s) ==
  [i \in 1..Len(s) |->
     IF \E j \in 1..Len(UpperCase) : UpperCase[j] = s[i]
       THEN LowerCase[CHOOSE j \in 1..Len(UpperCase) : UpperCase[j] = s[i]]
       ELSE s[i]]

\* s.includes(p)
Includes(s, p) ==
  \E i \in 1..(Len(s) - Len(p) + 1) : SubSeq(s, i, i + Len(p) - 1) = p

\* /(a|b|...)/i.test(s) for the alternatives alts.
Test(alts, s) == \E p \in alts : Includes(s, p)

\* /run.*forecast/.test(s): "run", then any characters, then "forecast".
TestRunForecast(s) ==
  \E i \in 1..(Len(s) - Len(RunWord) + 1) :
    /\ SubSeq(s, i, i + Len(RunWord) - 1) = RunWord
    /\ \E j \in (i + Len(RunWord))..(Len(s) - Len(ForecastWord) + 1) :
         SubSeq(s, j, j + Len(ForecastWord) - 1) = ForecastWord

\* A WorkflowStep: id n stands for `step-n`.
Step(n, status, deps, agent) ==
  [id |-> n, status |-> status, dependencies |-> deps, agent |-> agent]

\* AGENTS: the keys in the order of Object.entries, the names, the keywords.
AgentKeysA == <<"eda", "forecasting", "whatif", "comparative", "general">>
AgentNameA ==
  [eda |-> "EDA Agent", forecasting |-> "Forecasting Agent",
   whatif |-> "What-If Agent", comparative |-> "Comparative Agent",
   general |-> "General Assistant"]
KeywordsA ==
  [eda |-> KeywordsEdaA, forecasting |-> KeywordsForecastingA,
   whatif |-> KeywordsWhatifA, comparative |-> KeywordsComparativeA,
   general |-> {}]

\* ENHANCED_AGENTS: the keys in the order of Object.entries, the names, the
\* keywords (the same in both enhanced panels).
AgentKeys ==
  <<"onboarding", "eda", "preprocessing", "modeling", "forecasting",
    "validation", "insights", "general">>
AgentName ==
  [onboarding |-> "Onboarding Guide", eda |-> "Data Explorer",
   preprocessing |-> "Data Engineer", modeling |-> "ML Engineer",
   forecasting |-> "Forecast Analyst", validation |-> "Quality Analyst",
   insights |-> "Business Analyst", general |-> "BI Assistant"]
Keywords ==
  [onboarding |-> KeywordsOnboarding, eda |-> KeywordsEda,
   preprocessing |-> KeywordsPreprocessing, modeling |-> KeywordsModeling,
   forecasting |-> KeywordsForecasting, validation |-> KeywordsValidation,
   insights |-> KeywordsInsights, general |-> {}]

\* The loop over Object.entries(agents): the first agent other than general
\* one of whose keywords the message includes, as a list of at most one key.
KeywordAgent(keys, keywords, s) ==
  LET hits == {i \in 1..Len(keys) :
                 keys[i] # "general" /\ Test(keywords[keys[i]], s)}
  IN IF hits = {} THEN << >>
     ELSE <<keys[CHOOSE i \in hits : \A j \in hits : i <= j]>>

\* MultiAgentChatHandler.selectAgent
SelectAgent(userMessage) ==
  LET lowerMessage == ToLowerCase(userMessage)
      selectedAgents == KeywordAgent(AgentKeysA, KeywordsA, lowerMessage)
  IN IF Test(ForecastingRegexA, lowerMessage) THEN <<"eda", "forecasting">>
     ELSE IF selectedAgents = << >> THEN <<"general">>
     ELSE selectedAgents

\* MultiAgentChatHandler.createWorkflowSteps
CreateWorkflowSteps(agentKeys) ==
  [index \in 1..Len(agentKeys) |->
     Step(index,
          IF index = 1 THEN "active" ELSE "pending",
          IF index > 1 THEN {index - 1} ELSE {},
          AgentNameA[agentKeys[index]])]

\* A plan of the enhanced planners: one step of the agent named.
OneStep(key, agent) ==
  [agents |-> <<key>>, workflow |-> <<Step(1, "pending", {}, agent)>>]

\* A list of pending steps every one of which depends on the first.
ChainOnFirst(names) ==
  [n \in 1..Len(names) |->
     Step(n, "pending", IF n > 1 THEN {1} ELSE {}, names[n])]

\* A chain of pending steps of the agents named, step n depending on n-1.
Chain(names) ==
  [n \in 1..Len(names) |->
     Step(n, "pending", IF n > 1 THEN {n - 1} ELSE {}, names[n])]

\* The forecasting pipeline of both enhanced planners.
Pipeline ==
  <<"eda", "preprocessing", "modeling", "validation", "forecasting", "insights">>

\* The keyword fallback without the general assistant.
FallbackPlanNoGeneral(lowerMessage) ==
  LET selectedAgents == KeywordAgent(AgentKeys, Keywords, lowerMessage)
  IN IF selectedAgents = << >> THEN [agents |-> << >>, workflow |-> << >>]
     ELSE OneStep(selectedAgents[1], AgentName[selectedAgents[1]])

\* The keyword fallback and the general assistant of both enhanced planners.
FallbackPlan(lowerMessage) ==
  LET selectedAgents == KeywordAgent(AgentKeys, Keywords, lowerMessage)
  IN IF selectedAgents = << >> THEN OneStep("general", "BI Assistant")
     ELSE OneStep(selectedAgents[1], AgentName[selectedAgents[1]])

\* selectOptimalAgents of the data panel with the complete-analysis rule tried
\* before the forecast rule.
SelectOptimalAgentsCompleteFirst(userMessage, hasData) ==
  LET lowerMessage == ToLowerCase(userMessage)
  IN IF Test(OnboardingRegex, lowerMessage) /\ ~hasData
       THEN OneStep("onboarding", "Onboarding Guide")
     ELSE IF Test(ExploreRegex, lowerMessage) /\ ~Test(NoForecastRegex, lowerMessage)
       THEN OneStep("eda", "Data Explorer")
     ELSE IF Test(CompleteRegex, lowerMessage)
       THEN [agents |-> <<"eda", "forecasting", "insights">>,
             workflow |-> Chain(<<"Data Explorer", "Forecast Analyst",
                                  "Business Analyst">>)]
     ELSE IF Test(ForecastRegex, lowerMessage) \/ TestRunForecast(lowerMessage)
       THEN [agents |-> Pipeline,
             workflow |-> Chain(<<"Data Explorer", "Data Engineer", "ML Engineer",
                                  "Model Validator", "Forecast Analyst",
                                  "Business Analyst">>)]
     ELSE IF Test(InsightsRegex, lowerMessage) /\ ~Test(NoForecastExploreRegex, lowerMessage)
       THEN OneStep("insights", "Business Analyst")
     ELSE FallbackPlan(lowerMessage)

\* EnhancedMultiAgentChatHandler.selectOptimalAgents of the data panel.
SelectOptimalAgents(userMessage, hasData) ==
  LET lowerMessage == ToLowerCase(userMessage)
  IN IF Test(OnboardingRegex, lowerMessage) /\ ~hasData
       THEN OneStep("onboarding", "Onboarding Guide")
     ELSE IF Test(ExploreRegex, lowerMessage) /\ ~Test(NoForecastRegex, lowerMessage)
       THEN OneStep("eda", "Data Explorer")
     ELSE IF Test(ForecastRegex, lowerMessage) \/ TestRunForecast(lowerMessage)
       THEN [agents |-> Pipeline,
             workflow |-> Chain(<<"Data Explorer", "Data Engineer", "ML Engineer",
                                  "Model Validator", "Forecast Analyst",
                                  "Business Analyst">>)]
     ELSE IF Test(InsightsRegex, lowerMessage) /\ ~Test(NoForecastExploreRegex, lowerMessage)
       THEN OneStep("insights", "Business Analyst")
     ELSE IF Test(CompleteRegex, lowerMessage)
       THEN [agents |-> <<"eda", "forecasting", "insights">>,
             workflow |-> Chain(<<"Data Explorer", "Forecast Analyst",
                                  "Business Analyst">>)]
     ELSE FallbackPlan(lowerMessage)

\* EnhancedMultiAgentChatHandler.selectOptimalAgents of the chat panel.
SelectOptimalAgentsChat(userMessage, hasData) ==
  LET lowerMessage == ToLowerCase(userMessage)
  IN IF Test(OnboardingRegex, lowerMessage) /\ ~hasData
       THEN [agents |-> <<"onboarding">>,
             workflow |-> Chain(<<"Onboarding Guide", "Onboarding Guide",
                                  "Onboarding Guide">>)]
     ELSE IF Test(ForecastRegexC, lowerMessage)
       THEN [agents |-> Pipeline,
             workflow |-> Chain(<<"Data Explorer", "Data Engineer", "ML Engineer",
                                  "Quality Analyst", "Forecast Analyst",
                                  "Business Analyst">>)]
     ELSE FallbackPlan(lowerMessage)

(* ---------------------------- the app store --------------------------- *)
\* The part of AppState the workflow lives in.
Store == [workflow |-> workflow, isProcessing |-> isProcessing]

\* appReducer(state, action), for the actions the handlers dispatch on the
\* workflow; { ...step, ...action.payload } replaces the status of the step.
AppReducer(state, action) ==
  CASE action.type = "SET_PROCESSING" ->
         [state EXCEPT !.isProcessing = action.payload]
    [] action.type = "UPDATE_WORKFLOW_STEP" ->
         LET newWorkflow ==
               [n \in 1..Len(state.workflow) |->
                  IF state.workflow[n].id = action.payload.id
                    THEN [state.workflow[n] EXCEPT !.status = action.payload.status]
                    ELSE state.workflow[n]]
             isStillProcessing ==
               \E n \in 1..Len(newWorkflow) :
                 newWorkflow[n].status \in {"active", "pending"}
             allCompleted ==
               \A n \in 1..Len(newWorkflow) : newWorkflow[n].status = "completed"
         IN [workflow |-> newWorkflow,
             isProcessing |-> IF allCompleted THEN FALSE ELSE isStillProcessing]
    [] action.type = "SET_WORKFLOW" ->
         [workflow |-> action.payload, isProcessing |-> TRUE]
    [] action.type = "RESET_WORKFLOW" ->
         [workflow |-> << >>, isProcessing |-> FALSE]

SetProcessing(p) == [type |-> "SET_PROCESSING", payload |-> p]
SetWorkflow(steps) == [type |-> "SET_WORKFLOW", payload |-> steps]
UpdateWorkflowStep(id, status) ==
  [type |-> "UPDATE_WORKFLOW_STEP", payload |-> [id |-> id, status |-> status]]

(* ----------------------------- the handlers --------------------------- *)
\* The three chat handlers of the repository.
ChatPanel == "MultiAgentChatHandler"
EnhancedDataPanel == "EnhancedMultiAgentChatHandler (data panel)"
EnhancedChatPanel == "EnhancedMultiAgentChatHandler (chat panel)"
Handlers == {ChatPanel, EnhancedDataPanel, EnhancedChatPanel}

\* What the provider call of a step ends with: a response, or an error the
\* provider or the client throws.
Ok == [status |-> 200, code |-> "", message |-> ""]
\* The message begins with the key emoji U+1F511, written <key> here.
NoKeysMessage ==
  "<key> No API keys configured. Please configure OpenAI or OpenRouter API key in settings."
ENoKeys == [status |-> 0, code |-> "", message |-> NoKeysMessage]
FlowErrors == {E401, E503, ENotFound, ENoKeys}

\* error.message as the handler's catch sees it: the enhanced panels call
\* createChatCompletion, which throws handleError(error).
ErrorMessage(error) == HandleError(error)

\* errorMessage.includes(<key>), over the messages of FlowErrors.
IncludesKeyEmoji(errorMessage) == errorMessage \in {NoKeysMessage}

\* errorMessage.includes('API key'), over the messages of FlowErrors.
IncludesAPIKey(errorMessage) ==
  errorMessage \in {"Invalid API key. Please check your OpenAI configuration.",
                    NoKeysMessage}

\* A piece of finalResponse: the response of an agent, raw or under the
\* heading `## name`, or the annotation of a failure. plan: the response
\* carries a [WORKFLOW_PLAN] block.
Section(kind, agent, message, plan) ==
  [kind |-> kind, agent |-> agent, message |-> message, plan |-> plan]

\* The plan of a handler for a message.
PlanOf(h, userMessage, hasData) ==
  IF h = ChatPanel
    THEN [agents |-> SelectAgent(userMessage),
          workflow |-> CreateWorkflowSteps(SelectAgent(userMessage))]
  ELSE IF h = EnhancedDataPanel THEN SelectOptimalAgents(userMessage, hasData)
  ELSE SelectOptimalAgentsChat(userMessage, hasData)

\* The plans of the handlers for the messages of the model, with and without
\* data in the selected line of business.
Plans ==
  [h \in Handlers |->
     [m \in 1..Len(Messages) |->
        [hasData \in BOOLEAN |-> PlanOf(h, Messages[m], hasData)]]]

\* The id of the step the handler transitions while agent n runs, 0 if none:
\* `step-${i + 1}` in the chat panel, workflow[i]?.id in the data panel; the
\* enhanced chat panel transitions no step.
CurrentStepId(h, r, n) ==
  IF h = ChatPanel THEN n
  ELSE IF h = EnhancedDataPanel /\ n <= Len(r.steps) THEN r.steps[n].id
  ELSE 0

\* The dispatch of a status for the step of agent n.
Transition(h, state, r, n, status) ==
  IF CurrentStepId(h, r, n) = 0 THEN state
  ELSE AppReducer(state, UpdateWorkflowStep(CurrentStepId(h, r, n), status))

\* finalResponse.trim() || fallback
Respond(sections, fallback, agentType, multiAgent) ==
  [kind |-> "response",
   fixed |-> IF sections = << >> THEN fallback ELSE "",
   sections |-> sections, agentType |-> agentType, multiAgent |-> multiAgent]

\* The return after the loop.
Return(h, r) ==
  IF h = ChatPanel
    THEN Respond(r.sections, "Sorry, I couldn't generate a response.",
                 r.agents[r.i], FALSE)
    ELSE Respond(r.sections,
                 "I apologize, but I couldn't generate a complete response. Please try again.",
                 r.agents[r.i], Len(r.agents) > 1)

\* The return of the chat panel's catch.
ReturnTrouble ==
  [kind |-> "response",
   fixed |-> "Sorry, I'm having trouble connecting right now. Please try again.",
   sections |-> << >>, agentType |-> "general", multiAgent |-> FALSE]

\* The end of an iteration of the loop: the next iteration up to its await,
\* or the return when the loop is over or was left (stop).
Proceed(h, state, r, stop) ==
  IF stop \/ r.i = Len(r.agents)
    THEN [store |-> state, run |-> [r EXCEPT !.pc = "returned"],
          result |-> Return(h, r)]
    ELSE [store |-> Transition(h, state, r, r.i + 1, "active"),
          run |-> [r EXCEPT !.pc = "awaiting", !.i = r.i + 1],
          result |-> result]

\* The runs a behaviour starts.
MaxRuns == 2

\* The store and the provider's state a step of a handler leaves alone.
SetStore(state) ==
  /\ workflow' = state.workflow
  /\ isProcessing' = state.isProcessing

\* submitMessage / continueWithAnalysis with the handler's response method up
\* to its first await: the plan, its registration, the first activation. The
\* input is enabled while the assistant is not typing.
Start(m, hasData) ==
  /\ handler \in Handlers
  /\ run.pc = "idle"
  /\ runs < MaxRuns
  /\ LET plan == Plans[handler][m][hasData]
         r == [pc |-> "awaiting", agents |-> plan.agents, steps |-> plan.workflow,
               i |-> 1, sections |-> << >>, outcomes |-> << >>]
         s1 == AppReducer(Store, SetProcessing(TRUE))
         s2 == IF handler = EnhancedChatPanel /\ ~(Len(plan.workflow) > 1)
                 THEN s1
                 ELSE AppReducer(s1, SetWorkflow(plan.workflow))
     IN /\ SetStore(Transition(handler, s2, r, 1, "active"))
        /\ run' = r
  /\ result' = [NoReturn EXCEPT !.kind = "typing"]
  /\ runs' = runs + 1
  /\ UNCHANGED <<now, cacheVars, clientVars, handler, earlier>>
  /\ UNCHANGED callVars

\* The provider call of the current step returns a response: the try block
\* up to its pause.
StepSucceeds(plan) ==
  /\ run.pc = "awaiting"
  /\ plan => handler = ChatPanel
  /\ LET agentKey == run.agents[run.i]
         sections ==
           IF handler = ChatPanel
             THEN Append(run.sections, Section("raw", AgentNameA[agentKey], "", plan))
           ELSE IF Len(run.agents) = 1
             THEN <<Section("raw", AgentName[agentKey], "", FALSE)>>
           ELSE Append(run.sections, Section("heading", AgentName[agentKey], "", FALSE))
     IN /\ SetStore(Transition(handler, Store, run, run.i, "completed"))
        /\ run' = [run EXCEPT !.pc = "pause", !.sections = sections,
                              !.outcomes = Append(@, Ok)]
  /\ UNCHANGED <<now, cacheVars, clientVars, handler, result, runs, earlier>>
  /\ UNCHANGED callVars

\* The pause after a step is over: the next iteration or the return.
PauseDone ==
  /\ run.pc = "pause"
  /\ LET p == Proceed(handler, Store, run, FALSE)
     IN /\ SetStore(p.store)
        /\ run' = p.run
        /\ result' = p.result
  /\ UNCHANGED <<now, cacheVars, clientVars, handler, runs, earlier>>
  /\ UNCHANGED callVars

\* The provider call of the current step throws: the catch block, and what
\* follows it without an await.
StepFails(error) ==
  /\ run.pc = "awaiting"
  /\ LET agentKey == run.agents[run.i]
         errorMessage == ErrorMessage(error)
         failed == Transition(handler, Store, run, run.i, "error")
         annotation ==
           IF handler = EnhancedChatPanel
             THEN Section("warning", AgentName[agentKey], errorMessage, FALSE)
           ELSE IF IncludesKeyEmoji(errorMessage) \/ IncludesAPIKey(errorMessage)
             THEN Section("quick fix", AgentName[agentKey], errorMessage, FALSE)
           ELSE Section("troubleshooting", AgentName[agentKey], errorMessage, FALSE)
         r == [run EXCEPT !.outcomes = Append(@, error)]
         p == Proceed(handler, failed,
                      [r EXCEPT !.sections = Append(@, annotation)],
                      handler = EnhancedDataPanel /\ IncludesKeyEmoji(errorMessage))
     IN IF handler = ChatPanel
          THEN /\ SetStore(failed)
               /\ run' = [r EXCEPT !.pc = "returned"]
               /\ result' = ReturnTrouble
          ELSE /\ SetStore(p.store)
               /\ run' = p.run
               /\ result' = p.result
  /\ UNCHANGED <<now, cacheVars, clientVars, handler, runs, earlier>>
  /\ UNCHANGED callVars

\* The caller after the handler returned: the chat panel registers the
\* workflow plan of the response, if it has one; SET_PROCESSING false.
AfterReturn ==
  /\ run.pc = "returned"
  /\ LET hasPlan ==
           /\ handler = ChatPanel
           /\ \E n \in 1..Len(result.sections) : result.sections[n].plan
         planned ==
           IF hasPlan
             THEN AppReducer(Store, SetWorkflow(Chain(<<result.agentType, result.agentType>>)))
             ELSE Store
     IN SetStore(AppReducer(planned, SetProcessing(FALSE)))
  /\ run' = NoRun
  /\ UNCHANGED <<now, cacheVars, clientVars, handler, result, runs, earlier>>
  /\ UNCHANGED callVars

InitFlow ==
  /\ now = 0 /\ CacheInit /\ ClientInit
  /\ handler \in Handlers
  /\ StoreInit
  /\ CallIdle

NextFlow ==
  \/ \E m \in 1..Len(Messages), hasData \in BOOLEAN : Start(m, hasData)
  \/ \E plan \in BOOLEAN : StepSucceeds(plan)
  \/ \E error \in FlowErrors : StepFails(error)
  \/ PauseDone
  \/ AfterReturn

SpecFlow == InitFlow /\ [][NextFlow]_vars

(* ------------------------ claims on the workflow ---------------------- *)
\* The name a handler gives the agent of a key.
AgentNameOf(h, key) == IF h = ChatPanel THEN AgentNameA[key] ELSE AgentName[key]

\* The step of id d of the registered workflow is completed.
Completed(d) ==
  \A n \in 1..Len(workflow) : workflow[n].id = d => workflow[n].status = "completed"

\* C6: the steps of a workflow leave pending in list order, and no step is
\* active while one of its prerequisite steps is not completed.
C6_ActiveAfterPrerequisites ==
  /\ \A n \in 1..Len(workflow) :
       workflow[n].status # "pending"
         => \A k \in 1..(n - 1) : workflow[k].status # "pending"
  /\ \A n \in 1..Len(workflow) :
       workflow[n].status = "active"
         => \A d \in workflow[n].dependencies : Completed(d)

\* C7: when the provider call of step k failed with HTTP 401, step k is in
\* error and no later step of the workflow has left pending.
C7_UnauthorizedHalts ==
  \A k \in 1..Len(run.outcomes) :
    run.outcomes[k].status = 401
      => \A n \in 1..Len(workflow) :
           /\ n = k => workflow[n].status = "error"
           /\ n > k => workflow[n].status = "pending"

\* C9: the result of a run in which a step failed holds the output of every
\* step that completed and, for every step that failed, an annotation with
\* the name of its agent and the reason.
C9_PartialResultAnnotated ==
  (run.pc = "returned" /\ \E k \in 1..Len(run.outcomes) : run.outcomes[k] # Ok)
  => \A k \in 1..Len(run.outcomes) :
       \E n \in 1..Len(result.sections) :
         /\ result.sections[n].agent = AgentNameOf(handler, run.agents[k])
         /\ IF run.outcomes[k] = Ok
              THEN result.sections[n].kind \in {"raw", "heading"}
              ELSE /\ result.sections[n].kind \in {"warning", "quick fix", "troubleshooting"}
                   /\ result.sections[n].message # ""

\* C10: once a run has returned, no step of the registered workflow is
\* pending or active.
C10_NoStepLeftAfterReturn ==
  (result.kind = "response")
  => \A n \in 1..Len(workflow) : workflow[n].status \notin {"pending", "active"}

(* ----------------------- handleError on its own ----------------------- *)
\* The errors handleError is applied to: status (0 when the error has none),
\* code ("" when it has none) and message of what the provider call throws.
ErrorStatuses == {0, 400, 401, 403, 404, 429, 499, 500, 502, 503, 504}
ErrorCodes == {"", "ENOTFOUND", "ECONNREFUSED", "ETIMEDOUT"}
ErrorTexts == {"", "Bad request", "socket hang up"}
ThrownErrors ==
  [status : ErrorStatuses, code : ErrorCodes, message : ErrorTexts]

\* The class of an Error of the client, told by its wording.
ErrorClass(message) ==
  CASE message = "Rate limit exceeded. Please wait a moment before trying again."
         -> "RateLimitedUpstream"
    [] message = "Invalid API key. Please check your OpenAI configuration."
         -> "Unauthorized"
    [] message = "OpenAI service is temporarily unavailable. Please try again later."
         -> "ProviderUnavailable"
    [] message = "Network connection failed. Please check your internet connection."
         -> "NetworkError"
    [] message = RateLimitMessage -> "RateLimited"
    [] OTHER -> "Unknown"

\* The catch of the closure applies handleError to what was thrown.
CallHandleError ==
  /\ args.op = "handleError"
  /\ ~returned.done
  /\ returned' = [done |-> TRUE, value |-> HandleError(args.error)]
  /\ UNCHANGED <<now, cacheVars, clientVars, flowVars, args>>

InitErrors ==
  /\ now = 0 /\ CacheInit /\ ClientInit
  /\ handler = "none" /\ StoreInit
  /\ \E error \in ThrownErrors : args = [op |-> "handleError", error |-> error]
  /\ returned = NotReturned

NextErrors == CallHandleError

SpecErrors == InitErrors /\ [][NextErrors]_vars

\* C13: handleError puts an error in the class of its status or code: 429 is
\* the upstream rate limit, 401 is unauthorized, a status from 500 on is the
\* provider being unavailable, ENOTFOUND and ECONNREFUSED are the network,
\* anything else is unknown; the wording for 401 is that of no other class,
\* and no error is given the wording of the local admission refusal.
C13_ClassifiedByStatusOrCode ==
  (args.op = "handleError" /\ returned.done)
  => LET error == args.error
         class == ErrorClass(returned.value)
     IN /\ class =
             IF error.status = 429 THEN "RateLimitedUpstream"
             ELSE IF error.status = 401 THEN "Unauthorized"
             ELSE IF error.status >= 500 THEN "ProviderUnavailable"
             ELSE IF error.code \in {"ENOTFOUND", "ECONNREFUSED"} THEN "NetworkError"
             ELSE "Unknown"
        /\ class # "RateLimited"
        /\ returned.value # RateLimitMessage
        /\ returned.value # ""

\* handleError classified an error of status 500 as the provider being
\* unavailable.
C13_Witness ==
  /\ args.op = "handleError" /\ returned.done
  /\ args.error.status = 500
  /\ ErrorClass(returned.value) = "ProviderUnavailable"

\* isWorkflowActive(): some step of the workflow is pending or active.
IsWorkflowActive ==
  \E n \in 1..Len(workflow) : workflow[n].status \in {"pending", "active"}

\* C22: the processing indicator of the store is true exactly when some step
\* of the workflow is pending or active; it is false when the workflow is
\* empty and when every step is completed or in error.
C22_ProcessingIffWorkflowActive == isProcessing = IsWorkflowActive

\* A transient failure: a status from 500 on, or the network.
Transient(error) ==
  error.status >= 500 \/ error.code \in {"ENOTFOUND", "ECONNREFUSED"}

\* C17: when the call of step k failed with a transient error and step k+1
\* depends on step k, the run does not go on to step k+1, and what the run
\* returns reports the steps that were not executed as skipped.
C17_DependentSkippedAndReported ==
  \A k \in 1..Len(run.outcomes) :
    (/\ Transient(run.outcomes[k])
     /\ k < Len(run.agents) /\ k < Len(run.steps)
     /\ k \in run.steps[k + 1].dependencies)
    => /\ run.i = k
       /\ run.pc = "returned"
            => \E n \in 1..Len(result.sections) : result.sections[n].kind = "skipped"

(* ------------------ a message while a run is under way ---------------- *)
\* The messages and the provider failures of the runs that overlap:
\* "end to end review" (three steps), "hello" (one step); a 503.
OverlapMessages == {5, 7}
OverlapErrors == {E503}

\* handleSuggestionClick -> submitMessage -> continueWithAnalysis of the data
\* panel while an activation of generateEnhancedResponse is not over: the
\* suggestion buttons of the messages are not disabled while the assistant is
\* typing, and submitMessage has no guard on isProcessing. The activation
\* under way goes on as the earlier one.
SuggestionClick(m, hasData) ==
  /\ handler = EnhancedDataPanel
  /\ run.pc \in {"awaiting", "pause"}
  /\ earlier.pc = "idle"
  /\ runs < MaxRuns
  /\ LET plan == Plans[handler][m][hasData]
         r == [pc |-> "awaiting", agents |-> plan.agents, steps |-> plan.workflow,
               i |-> 1, sections |-> << >>, outcomes |-> << >>]
         s1 == AppReducer(Store, SetProcessing(TRUE))
         s2 == AppReducer(s1, SetWorkflow(plan.workflow))
     IN /\ SetStore(Transition(handler, s2, r, 1, "active"))
        /\ run' = r
  /\ earlier' = run
  /\ result' = [NoReturn EXCEPT !.kind = "typing"]
  /\ runs' = runs + 1
  /\ UNCHANGED <<now, cacheVars, clientVars, handler>>
  /\ UNCHANGED callVars

\* The provider call of the earlier activation returns a response.
EarlierSucceeds ==
  /\ earlier.pc = "awaiting"
  /\ LET agentKey == earlier.agents[earlier.i]
         sections ==
           IF Len(earlier.agents) = 1
             THEN <<Section("raw", AgentName[agentKey], "", FALSE)>>
             ELSE Append(earlier.sections,
                         Section("heading", AgentName[agentKey], "", FALSE))
     IN /\ SetStore(Transition(handler, Store, earlier, earlier.i, "completed"))
        /\ earlier' = [earlier EXCEPT !.pc = "pause", !.sections = sections,
                                      !.outcomes = Append(@, Ok)]
  /\ UNCHANGED <<now, cacheVars, clientVars, handler, run, result, runs>>
  /\ UNCHANGED callVars

\* The pause of the earlier activation is over: its next iteration, or its
\* return and the UPDATE_LAST_MESSAGE of its caller.
EarlierPauseDone ==
  /\ earlier.pc = "pause"
  /\ LET p == Proceed(handler, Store, earlier, FALSE)
     IN /\ SetStore(p.store)
        /\ earlier' = p.run
        /\ result' = p.result
  /\ UNCHANGED <<now, cacheVars, clientVars, handler, run, runs>>
  /\ UNCHANGED callVars

\* The provider call of the earlier activation throws.
EarlierFails(error) ==
  /\ earlier.pc = "awaiting"
  /\ LET agentKey == earlier.agents[earlier.i]
         errorMessage == ErrorMessage(error)
         failed == Transition(handler, Store, earlier, earlier.i, "error")
         annotation ==
           IF IncludesKeyEmoji(errorMessage) \/ IncludesAPIKey(errorMessage)
             THEN Section("quick fix", AgentName[agentKey], errorMessage, FALSE)
             ELSE Section("troubleshooting", AgentName[agentKey], errorMessage, FALSE)
         r == [earlier EXCEPT !.outcomes = Append(@, error)]
         p == Proceed(handler, failed,
                      [r EXCEPT !.sections = Append(@, annotation)],
                      IncludesKeyEmoji(errorMessage))
     IN /\ SetStore(p.store)
        /\ earlier' = p.run
        /\ result' = p.result
  /\ UNCHANGED <<now, cacheVars, clientVars, handler, run, runs>>
  /\ UNCHANGED callVars

\* The caller of the earlier activation after it returned: SET_PROCESSING
\* false.
EarlierAfterReturn ==
  /\ earlier.pc = "returned"
  /\ SetStore(AppReducer(Store, SetProcessing(FALSE)))
  /\ earlier' = NoRun
  /\ UNCHANGED <<now, cacheVars, clientVars, handler, run, result, runs>>
  /\ UNCHANGED callVars

InitOverlap ==
  /\ now = 0 /\ CacheInit /\ ClientInit
  /\ handler = EnhancedDataPanel
  /\ StoreInit
  /\ CallIdle

NextOverlap ==
  \/ \E m \in OverlapMessages, hasData \in BOOLEAN : Start(m, hasData)
  \/ \E m \in OverlapMessages, hasData \in BOOLEAN : SuggestionClick(m, hasData)
  \/ StepSucceeds(FALSE)
  \/ \E error \in OverlapErrors : StepFails(error)
  \/ PauseDone
  \/ AfterReturn
  \/ EarlierSucceeds
  \/ \E error \in OverlapErrors : EarlierFails(error)
  \/ EarlierPauseDone
  \/ EarlierAfterReturn

SpecOverlap == InitOverlap /\ [][NextOverlap]_vars

\* The changes of status the workflow's state machine has.
AllowedTransitions ==
  {<<"pending", "active">>, <<"active", "completed">>, <<"active", "error">>}

\* C14: while no workflow is registered anew, the status of a step of the
\* registered workflow changes only from pending to active, from active to
\* completed or from active to error: no step moves backward, and no step
\* leaves completed or error.
C14_ForwardOnly ==
  [][(runs' = runs /\ Len(workflow') = Len(workflow))
     => \A n \in 1..Len(workflow) :
          \/ workflow'[n].status = workflow[n].status
          \/ <<workflow[n].status, workflow'[n].status>> \in AllowedTransitions]_vars

\* The steps of the registered workflow that are active.
ActiveSteps == {n \in 1..Len(workflow) : workflow[n].status = "active"}

\* C26: no two steps of the workflow are active at the same time, and while
\* the provider call of a step is awaited exactly one step is active, the
\* step of the agent that runs.
C26_OneActiveStep ==
  /\ Cardinality(ActiveSteps) <= 1
  /\ (run.pc = "awaiting" /\ workflow # << >>)
     => /\ Cardinality(ActiveSteps) = 1
        /\ ActiveSteps = {n \in 1..Len(workflow) :
                            workflow[n].id = CurrentStepId(handler, run, run.i)}

\* C16: an activation that a later message overtook performs no transition
\* on the workflow that replaced its own, and its result does not become the
\* answer in the chat.
C16_ReplacedRunWritesNothing ==
  [][(earlier.pc # "idle" /\ earlier' # earlier)
     => (workflow' = workflow /\ result' = result)]_vars

(* --------------------- UPDATE_WORKFLOW_STEP on its own ---------------- *)
\* The workflows a transition is applied to: a chain the planners register
\* (one, three or six steps), its first k steps completed, the next one
\* active, the others pending.
Progressed(names, k) ==
  [n \in 1..Len(names) |->
     [Chain(names)[n] EXCEPT
        !.status = IF n <= k THEN "completed"
                   ELSE IF n = k + 1 THEN "active" ELSE "pending"]]

RegisteredWorkflows ==
  {Progressed(names, k) :
     names \in {<<"BI Assistant">>,
                <<"Data Explorer", "Forecast Analyst", "Business Analyst">>},
     k \in 0..2}
  \cup {Progressed(<<"Data Explorer", "Data Engineer", "ML Engineer",
                     "Model Validator", "Forecast Analyst", "Business Analyst">>, k) :
          k \in 0..5}

\* The step ids and the statuses of a transition; step-0 and step-7 are ids
\* of no step.
StepIds == 0..7
Statuses == {"pending", "active", "completed", "error"}

\* dispatch({ type: 'UPDATE_WORKFLOW_STEP', payload: { id, status } }): the
\* reducer returns the next state; no branch of it throws or rejects.
CallTransition ==
  /\ args.op = "transition"
  /\ ~returned.done
  /\ returned' =
       [done |-> TRUE,
        failed |-> FALSE,
        value |-> AppReducer(args.state,
                             UpdateWorkflowStep(args.stepId, args.newStatus))]
  /\ UNCHANGED <<now, cacheVars, clientVars, flowVars, args>>

InitReducer ==
  /\ now = 0 /\ CacheInit /\ ClientInit
  /\ handler = "none" /\ StoreInit
  /\ returned = NotReturned
  /\ args \in [op : {"transition"},
               state : [workflow : RegisteredWorkflows, isProcessing : {TRUE}],
               stepId : StepIds,
               newStatus : Statuses]

NextReducer == CallTransition

SpecReducer == InitReducer /\ [][NextReducer]_vars

\* The transition asked for names a step and is an allowed change of its
\* status.
IsAllowed(w, stepId, newStatus) ==
  \E n \in 1..Len(w) :
    /\ w[n].id = stepId
    /\ <<w[n].status, newStatus>> \in AllowedTransitions

\* C15: a transition that names no step of the workflow, or asks for a change
\* of status that is not allowed, fails and leaves the workflow as it was.
C15_InvalidTransitionFails ==
  (/\ returned.done
   /\ ~IsAllowed(args.state.workflow, args.stepId, args.newStatus))
  => /\ returned.value.workflow = args.state.workflow
     /\ returned.failed

(* ------------------------ the planners on their own ------------------- *)
\* selectOptimalAgents / selectAgent with createWorkflowSteps applied to a
\* message and a context: the plan the handler works from.
CallPlanner ==
  /\ args.op = "plan"
  /\ ~returned.done
  /\ returned' =
       [done |-> TRUE,
        value |-> Plans[args.handler][args.userMessage][args.hasData]]
  /\ UNCHANGED <<now, cacheVars, clientVars, flowVars, args>>

InitPlanner ==
  /\ now = 0 /\ CacheInit /\ ClientInit
  /\ handler = "none" /\ StoreInit
  /\ returned = NotReturned
  /\ args \in [op : {"plan"}, handler : Handlers,
               userMessage : 1..Len(Messages), hasData : BOOLEAN]

NextPlanner == CallPlanner

SpecPlanner == InitPlanner /\ [][NextPlanner]_vars

\* The conditions of the rules of the enhanced planners, on the lowercased
\* message.
OnboardingRule(lowerMessage, hasData) ==
  Test(OnboardingRegex, lowerMessage) /\ ~hasData
ExploreRule(lowerMessage) ==
  Test(ExploreRegex, lowerMessage) /\ ~Test(NoForecastRegex, lowerMessage)
ForecastRule(lowerMessage) ==
  Test(ForecastRegex, lowerMessage) \/ TestRunForecast(lowerMessage)
InsightsRule(lowerMessage) ==
  Test(InsightsRegex, lowerMessage) /\ ~Test(NoForecastExploreRegex, lowerMessage)
CompleteRule(lowerMessage) == Test(CompleteRegex, lowerMessage)

\* The lowercased message the planner was applied to.
LowerMessage == ToLowerCase(Messages[args.userMessage])

\* The agents of the complete-analysis rule of the data panel.
CompleteAnalysis == <<"eda", "forecasting", "insights">>

\* C18 as claimed: in the data panel a message with a complete-analysis
\* phrase that no rule other than the forecast rule competes for is planned
\* by the complete-analysis rule, also when the forecast rule matches it.
C18_CompletePreemptsForecast ==
  (/\ returned.done
   /\ args.handler = EnhancedDataPanel
   /\ CompleteRule(LowerMessage)
   /\ ~OnboardingRule(LowerMessage, args.hasData)
   /\ ~ExploreRule(LowerMessage)
   /\ ~InsightsRule(LowerMessage))
  => returned.value.agents = CompleteAnalysis

\* C18 amended: the rules are tried in one fixed order and the first that
\* matches wins, the forecast rule before the complete-analysis rule. In the
\* data panel a message the forecast rule matches (and neither the onboarding
\* nor the explore rule) is planned as the six-agent pipeline, also when it
\* holds a complete-analysis phrase; the complete-analysis rule plans a
\* message only when no rule before it matches. In the chat panel the
\* complete-analysis phrases are alternatives of the forecast rule itself.
C18_ForecastPreemptsComplete ==
  returned.done =>
    /\ (/\ args.handler = EnhancedDataPanel
        /\ ~OnboardingRule(LowerMessage, args.hasData)
        /\ ~ExploreRule(LowerMessage))
       => /\ ForecastRule(LowerMessage) => returned.value.agents = Pipeline
          /\ (/\ ~ForecastRule(LowerMessage)
              /\ ~InsightsRule(LowerMessage)
              /\ CompleteRule(LowerMessage))
             => returned.value.agents = CompleteAnalysis
    /\ (/\ args.handler = EnhancedChatPanel
        /\ ~OnboardingRule(LowerMessage, args.hasData)
        /\ Test(ForecastRegexC, LowerMessage))
       => returned.value.agents = Pipeline

\* The data panel planned a message that holds a complete-analysis phrase and
\* matches the forecast rule as the pipeline.
C18_Witness ==
  /\ returned.done
  /\ args.handler = EnhancedDataPanel
  /\ CompleteRule(LowerMessage) /\ ForecastRule(LowerMessage)
  /\ ~OnboardingRule(LowerMessage, args.hasData) /\ ~ExploreRule(LowerMessage)
  /\ returned.value.agents = Pipeline

\* No rule and no agent keyword matches the message in the planner applied.
NothingMatches ==
  IF args.handler = ChatPanel
    THEN /\ ~Test(ForecastingRegexA, LowerMessage)
         /\ KeywordAgent(AgentKeysA, KeywordsA, LowerMessage) = << >>
  ELSE IF args.handler = EnhancedDataPanel
    THEN /\ ~OnboardingRule(LowerMessage, args.hasData)
         /\ ~ExploreRule(LowerMessage)
         /\ ~ForecastRule(LowerMessage)
         /\ ~InsightsRule(LowerMessage)
         /\ ~CompleteRule(LowerMessage)
         /\ KeywordAgent(AgentKeys, Keywords, LowerMessage) = << >>
  ELSE /\ ~OnboardingRule(LowerMessage, args.hasData)
       /\ ~Test(ForecastRegexC, LowerMessage)
       /\ KeywordAgent(AgentKeys, Keywords, LowerMessage) = << >>

\* C19: the plan a planner returns has at least one agent and at least one
\* step; when no rule and no agent keyword matches the message, it is the
\* general assistant alone, with one step that depends on nothing.
C19_NonEmptyPlanAndGenericFallback ==
  returned.done =>
    /\ Len(returned.value.agents) >= 1
    /\ Len(returned.value.workflow) >= 1
    /\ NothingMatches
       => /\ returned.value.agents = <<"general">>
          /\ Len(returned.value.workflow) = 1
          /\ returned.value.workflow[1].dependencies = {}
          /\ returned.value.workflow[1].agent
               = AgentNameOf(args.handler, "general")

\* A planner was applied to a message nothing matches and returned the
\* general assistant.
C19_Witness ==
  /\ returned.done
  /\ NothingMatches
  /\ returned.value.agents = <<"general">>

\* C20: the dependencies of a plan are a linear chain over its steps: the
\* steps are step-1, step-2, .. in order, the first depends on nothing and
\* step n on step n-1 alone.
C20_LinearChain ==
  returned.done =>
    \A n \in 1..Len(returned.value.workflow) :
      /\ returned.value.workflow[n].id = n
      /\ returned.value.workflow[n].dependencies = IF n = 1 THEN {} ELSE {n - 1}

\* A planner returned a plan of several steps.
C20_Witness ==
  /\ returned.done
  /\ Len(returned.value.workflow) = 6
  /\ returned.value.workflow[6].dependencies = {5}

\* dispatch({ type: 'SET_WORKFLOW', payload: steps }) on the initial store:
\* the workflow the store holds right after a plan is registered.
Registered(steps) ==
  AppReducer([workflow |-> << >>, isProcessing |-> FALSE], SetWorkflow(steps)).workflow

\* C23: registering a plan puts its steps in the store in place of the
\* workflow that was there, every one of them pending, the first included.
C23_RegisteredAllPending ==
  returned.done =>
    /\ Len(Registered(returned.value.workflow)) = Len(returned.value.workflow)
    /\ \A n \in 1..Len(returned.value.workflow) :
         Registered(returned.value.workflow)[n].status = "pending"

\* C29: the agents of a plan and its steps are as many, step i being the
\* step of agent i.
C29_OneStepPerAgent ==
  returned.done =>
    Len(returned.value.agents) = Len(returned.value.workflow)

(* ------------------ generateEnhancedResponse on its own --------------- *)
\* The longest message validateChatMessage accepts.
MaxMessageLength == 10000

\* What generateEnhancedResponse is called with: a value that is a string or
\* not, the characters of the string, its length, and the message of the
\* model it is (0 if none). The long strings begin like "hello".
NotAString == [isString |-> FALSE, chars |-> << >>, length |-> 0, m |-> 0]
EmptyString == [isString |-> TRUE, chars |-> << >>, length |-> 0, m |-> 0]
BlankString == [isString |-> TRUE, chars |-> <<" ", " ", " ">>, length |-> 3, m |-> 0]
LongestString ==
  [isString |-> TRUE, chars |-> Message7, length |-> MaxMessageLength, m |-> 7]
TooLongString ==
  [isString |-> TRUE, chars |-> Message7, length |-> MaxMessageLength + 1, m |-> 7]
MessageString(m) ==
  [isString |-> TRUE, chars |-> Messages[m], length |-> Len(Messages[m]), m |-> m]
UserMessages ==
  {NotAString, EmptyString, BlankString, LongestString, TooLongString}
  \cup {MessageString(m) : m \in OverlapMessages}

\* message.trim().length === 0
TrimIsEmpty(chars) == \A n \in 1..Len(chars) : chars[n] \in {" ", "\t", "\n"}

\* validateChatMessage without the test of the length.
ValidateChatMessageNoMax(message) ==
  IF ~message.isString \/ message.length = 0
    THEN [isValid |-> FALSE, error |-> "Message must be a non-empty string"]
  ELSE IF TrimIsEmpty(message.chars)
    THEN [isValid |-> FALSE, error |-> "Message cannot be empty"]
  ELSE [isValid |-> TRUE, error |-> ""]

\* validateChatMessage(message)
ValidateChatMessage(message) ==
  IF ~message.isString \/ message.length = 0
    THEN [isValid |-> FALSE, error |-> "Message must be a non-empty string"]
  ELSE IF TrimIsEmpty(message.chars)
    THEN [isValid |-> FALSE, error |-> "Message cannot be empty"]
  ELSE IF message.length > MaxMessageLength
    THEN [isValid |-> FALSE, error |-> "Message is too long (max 10,000 characters)"]
  ELSE [isValid |-> TRUE, error |-> ""]

\* The conversationHistory of the handler before the call.
Histories == {<< >>, <<[role |-> "user", m |-> 7], [role |-> "assistant", m |-> 0]>>}

\* continueWithAnalysis with generateEnhancedResponse of the data panel, up
\* to the first await of the handler or to its throw. When the validation
\* fails the handler throws before it dispatches anything, and the catch of
\* the caller shows the error and clears the processing flag; otherwise the
\* plan is made and registered, the first step activated, the user message
\* pushed to the history and the provider called.
GenerateEnhancedResponse ==
  /\ args.op = "generateEnhancedResponse"
  /\ ~returned.done
  /\ run.pc = "idle"
  /\ LET validation == ValidateChatMessage(args.userMessage)
         plan == Plans[handler][args.userMessage.m][args.hasData]
         r == [pc |-> "awaiting", agents |-> plan.agents, steps |-> plan.workflow,
               i |-> 1, sections |-> << >>, outcomes |-> << >>]
         s1 == AppReducer(Store, SetProcessing(TRUE))
         s2 == AppReducer(s1, SetWorkflow(plan.workflow))
     IN IF ~validation.isValid
          THEN /\ returned' = [done |-> TRUE, threw |-> TRUE,
                               error |-> validation.error,
                               conversationHistory |-> args.conversationHistory]
               /\ SetStore(AppReducer(s1, SetProcessing(FALSE)))
               /\ result' = [NoReturn EXCEPT !.kind = "error",
                                             !.fixed = validation.error]
               /\ UNCHANGED <<run, runs>>
          ELSE /\ returned' = [done |-> TRUE, threw |-> FALSE, error |-> "",
                               conversationHistory |->
                                 Append(args.conversationHistory,
                                        [role |-> "user", m |-> args.userMessage.m])]
               /\ SetStore(Transition(handler, s2, r, 1, "active"))
               /\ run' = r
               /\ result' = [NoReturn EXCEPT !.kind = "typing"]
               /\ runs' = runs + 1
  /\ UNCHANGED <<now, cacheVars, clientVars, handler, earlier, args>>

InitValidate ==
  /\ now = 0 /\ CacheInit /\ ClientInit
  /\ handler = EnhancedDataPanel
  /\ StoreInit
  /\ returned = NotReturned
  /\ args \in [op : {"generateEnhancedResponse"}, userMessage : UserMessages,
               hasData : BOOLEAN, conversationHistory : Histories]

NextValidate ==
  \/ GenerateEnhancedResponse
  \/ StepSucceeds(FALSE)
  \/ \E error \in OverlapErrors : StepFails(error)
  \/ PauseDone
  \/ AfterReturn

SpecValidate == InitValidate /\ [][NextValidate]_vars

\* The message is not a string, is empty or holds only white space, or is
\* longer than 10000 characters.
FailsValidation(message) ==
  \/ ~message.isString
  \/ message.length = 0
  \/ TrimIsEmpty(message.chars)
  \/ message.length > 10000

\* C30: called with a message that fails the validation,
\* generateEnhancedResponse throws the validation's error before it makes a
\* plan: no workflow is registered, no step is transitioned, the history of
\* the conversation is as it was and no provider call is made, nothing
\* having reached the cache, the rate limiter or the queue.
C30_InvalidMessageNoEffect ==
  (returned.done /\ FailsValidation(args.userMessage))
  => /\ returned.threw
     /\ returned.error = ValidateChatMessage(args.userMessage).error
     /\ returned.error # ""
     /\ workflow = << >>
     /\ run = NoRun /\ runs = 0
     /\ ~isProcessing
     /\ returned.conversationHistory = args.conversationHistory
     /\ cache = << >> /\ requests = << >> /\ requestQueue = << >>
     /\ calls = << >> /\ workers = {}

\* The handler was called with a message of 10001 characters and threw.
C30_Witness ==
  /\ returned.done /\ returned.threw
  /\ args.userMessage.length > MaxMessageLength
  /\ args.conversationHistory # << >>
  /\ workflow = << >>

====
